---- MODULE Spec2Model ----
(***************************************************************************)
(* A model of MantleClient (src/src/index.ts): the constructor, the shared *)
(* request routine mantleRequest, the feature evaluation helper and the    *)
(* twenty public operations.  One client is constructed and then invoked   *)
(* sequentially; every invocation suspends at the two awaits of            *)
(* mantleRequest (fetch, response.json()) and is settled by the outcome    *)
(* the environment chooses there.                                          *)
(*                                                                         *)
(* JavaScript values are tagged records [k |-> kind, v |-> payload].       *)
(* Objects carry a TLA+ function from their own keys to values.  Strings   *)
(* that the code splits or joins (paths, URLs, log lines) are sequences of *)
(* tokens in which "/" is always a token of its own.                       *)
(***************************************************************************)
EXTENDS Integers, Sequences, FiniteSets, TLC

VARIABLES
    window,       \* TRUE iff a global `window` is defined (typeof window !== "undefined")
    given,        \* the parameter object handed to the constructor, or NoParams
    client,       \* the constructed client's fields, or NoClient
    pc,           \* "new" | "failed" | "idle" | "fetch" | "json" | "done"
    call,         \* the invocation in progress or just settled: the operation, its
                  \* argument and mantleRequest's {path, method, body}; or NoCall
    request,      \* the arguments of the invocation's fetch call: [url, init], or NoRequest
    fetched,      \* what the network did: NoResponse, [k: "failed", v: error], or
                  \* [k: "response", status, json: Pending | Resolved(body) | Rejected(e)]
    outcome,      \* Pending | Resolved(v) | Rejected(e) | Thrown(e) (constructor)
    console,      \* the console.error lines emitted by the current invocation
    callFetches,  \* number of fetch calls issued by the current invocation
    nInvoked,     \* number of invocations of public operations so far
    nFetch,       \* number of fetch calls so far
    flights       \* the invocations in flight at once on the one client: for each
                  \* slot, its position and its own locals (see SpecConcurrent)

vars == <<window, given, client, pc, call, request, fetched, outcome, console,
          callFetches, nInvoked, nFetch, flights>>

(***************************************************************************)
(* Bounds of the model.                                                    *)
(***************************************************************************)
MaxInvocations == 2   \* invocations per behaviour
MaxLimit == 2         \* limit features take the values -1 .. MaxLimit
MaxCount == 2         \* the `count` argument takes the values 0 .. MaxCount
MaxInFlight == 2      \* invocations in flight at once (SpecConcurrent)

(***************************************************************************)
(* JavaScript values.                                                      *)
(***************************************************************************)
Undefined == [k |-> "undefined", v |-> "undefined"]
JNull == [k |-> "null", v |-> "null"]
JBool(b) == [k |-> "boolean", v |-> b]
JNum(n) == [k |-> "number", v |-> n]
JStr(s) == [k |-> "string", v |-> s]
JObj(r) == [k |-> "object", v |-> r]
JArr(s) == [k |-> "array", v |-> s]
JFunction == [k |-> "function", v |-> "native"]
\* A string held as its sequence of tokens (a URL or a path).
JText(tokens) == [k |-> "text", v |-> tokens]
EmptyObject == JObj(<<>>)

\* Properties every object inherits from Object.prototype (a sample).
ObjectPrototype == {"constructor", "toString"}

\* ToBoolean: the falsy values are undefined, null, false, 0 and "".
Truthy(x) ==
    CASE x.k = "undefined" -> FALSE
      [] x.k = "null" -> FALSE
      [] x.k = "boolean" -> x.v
      [] x.k = "number" -> x.v # 0
      [] x.k = "string" -> x.v # ""
      [] x.k = "text" -> x.v # <<>>
      [] OTHER -> TRUE

IsNullish(x) == x.k \in {"undefined", "null"}

\* `typeof x`
TypeOf(x) ==
    CASE x.k \in {"null", "object", "array"} -> "object"
      [] OTHER -> x.k

\* The right operand of `in` must be an object; anything else throws a TypeError.
IsObjectLike(x) == x.k \in {"object", "array", "function"}

\* `key in x`, for an object-like x: own or inherited property.
HasProperty(x, key) ==
    \/ x.k = "object" /\ key \in DOMAIN x.v
    \/ key \in ObjectPrototype

\* `x[key]` / `x.key`, for a non-nullish x: own property, inherited property, or undefined.
Get(x, key) ==
    IF x.k = "object" /\ key \in DOMAIN x.v THEN x.v[key]
    ELSE IF key \in ObjectPrototype THEN JFunction
    ELSE Undefined

\* `a ?? b`
Coalesce(a, b) == IF IsNullish(a) THEN b ELSE a

\* `{...a, ...b}` for objects a and b: b's own keys override a's.
SpreadObj(a, b) ==
    JObj([key \in (DOMAIN a.v) \cup (DOMAIN b.v) |->
            IF key \in DOMAIN b.v THEN b.v[key] ELSE a.v[key]])

\* String(x) for the primitives the code interpolates into paths and queries.
Str(x) ==
    CASE x.k = "string" -> x.v
      [] x.k = "number" -> ToString(x.v)
      [] x.k = "boolean" -> IF x.v THEN "true" ELSE "false"
      [] x.k = "null" -> "null"
      [] x.k = "undefined" -> "undefined"
      [] x.k = "text" -> x.v
      [] OTHER -> "[object Object]"

\* `a < b` on numbers (every limit value and count of the model is a number).
Less(a, b) == a.k = "number" /\ b.k = "number" /\ a.v < b.v

(***************************************************************************)
(* Settled promises and thrown errors.                                     *)
(***************************************************************************)
Pending == [k |-> "pending", v |-> Undefined]
Resolved(value) == [k |-> "resolved", v |-> value]
Rejected(e) == [k |-> "rejected", v |-> e]
Thrown(e) == [k |-> "thrown", v |-> e]

Error(message) == [k |-> "Error", v |-> message]
\* The TypeError of `"error" in x` for an x that is not an object.
TypeErrorIn == [k |-> "TypeError", v |-> "Cannot use 'in' operator"]
\* The TypeError of reading a property of undefined or null.
TypeErrorRead == [k |-> "TypeError", v |-> "Cannot read properties of undefined"]

NoParams == [k |-> "none"]
NoClient == [k |-> "none"]
NoCall == [op |-> "none"]
NoRequest == [k |-> "none"]
NoResponse == [k |-> "none"]

(***************************************************************************)
(* The constructor.                                                        *)
(***************************************************************************)
DefaultApiUrl == <<"https:", "/", "/", "appapi.heymantle.com", "/", "v1">>

\* A constructor that tests for the browser before it tests appId.
MantleClient_BrowserFirst(p, hasWindow) ==
    IF hasWindow /\ Truthy(p.apiKey)
    THEN Thrown(Error("MantleClient apiKey should never be used in the browser"))
    ELSE IF ~Truthy(p.appId)
    THEN Thrown(Error("MantleClient appId is required"))
    ELSE Resolved([appId |-> p.appId,
                   apiKey |-> p.apiKey,
                   customerApiToken |-> p.customerApiToken,
                   apiUrl |-> IF p.apiUrl = Undefined THEN DefaultApiUrl ELSE p.apiUrl.v])

\* A constructor without the browser test.
MantleClient_NoBrowserCheck(p, hasWindow) ==
    IF ~Truthy(p.appId)
    THEN Thrown(Error("MantleClient appId is required"))
    ELSE Resolved([appId |-> p.appId,
                   apiKey |-> p.apiKey,
                   customerApiToken |-> p.customerApiToken,
                   apiUrl |-> IF p.apiUrl = Undefined THEN DefaultApiUrl ELSE p.apiUrl.v])

\* A constructor that demands a credential, as the package's older JavaScript
\* source did.
MantleClient_CredentialRequired(p, hasWindow) ==
    IF ~Truthy(p.appId)
    THEN Thrown(Error("MantleClient appId is required"))
    ELSE IF hasWindow /\ Truthy(p.apiKey)
    THEN Thrown(Error("MantleClient apiKey should never be used in the browser"))
    ELSE IF ~Truthy(p.apiKey) /\ ~Truthy(p.customerApiToken)
    THEN Thrown(Error("MantleClient one of apiKey or customerApiToken is required"))
    ELSE Resolved([appId |-> p.appId,
                   apiKey |-> p.apiKey,
                   customerApiToken |-> p.customerApiToken,
                   apiUrl |-> IF p.apiUrl = Undefined THEN DefaultApiUrl ELSE p.apiUrl.v])

\* new MantleClient({appId, apiKey, customerApiToken, apiUrl}) with `window`
\* defined or not: the error thrown, or the fields assigned.
MantleClient(p, hasWindow) ==
    IF ~Truthy(p.appId)
    THEN Thrown(Error("MantleClient appId is required"))
    ELSE IF hasWindow /\ Truthy(p.apiKey)
    THEN Thrown(Error("MantleClient apiKey should never be used in the browser"))
    ELSE Resolved([appId |-> p.appId,
                   apiKey |-> p.apiKey,
                   customerApiToken |-> p.customerApiToken,
                   apiUrl |-> IF p.apiUrl = Undefined THEN DefaultApiUrl ELSE p.apiUrl.v])

(***************************************************************************)
(* The request each operation hands to mantleRequest: {path, method, body}.*)
(* `args` is the operation's first argument (Undefined when omitted).      *)
(***************************************************************************)
Descriptor(path, method, body) == [path |-> path, method |-> method, body |-> body]

\* `...(cond ? {key: value} : {})`
OptionalKey(cond, key, value) == IF Truthy(cond) THEN (key :> value) ELSE <<>>

identifyRequest(args) == Descriptor(<<"identify">>, JStr("POST"), args)

\* A getCustomer that sends the id parameter whether or not an id was given.
getCustomerRequest_AlwaysId(id) ==
    Descriptor(<<"customer">>, Undefined, JObj([id |-> id]))

getCustomerRequest(id) ==
    Descriptor(<<"customer">>, Undefined,
               IF Truthy(id) THEN JObj([id |-> id]) ELSE Undefined)

subscribeRequest(args) == Descriptor(<<"subscriptions">>, JStr("POST"), args)

\* A cancelSubscription that sends no body, as the package's older JavaScript
\* source did.
cancelSubscriptionRequest_NoBody(args) ==
    Descriptor(<<"subscriptions">>, JStr("DELETE"), Undefined)

cancelSubscriptionRequest(args) ==
    LET cancelReason == IF IsNullish(args) THEN Undefined ELSE Get(args, "cancelReason")
    IN Descriptor(<<"subscriptions">>, JStr("DELETE"),
                  IF Truthy(cancelReason)
                  THEN JObj([cancelReason |-> cancelReason])
                  ELSE Undefined)

\* An updateSubscription that creates (POST) instead of updating (PUT).
updateSubscriptionRequest_Post(args) == Descriptor(<<"subscriptions">>, JStr("POST"), args)

updateSubscriptionRequest(args) == Descriptor(<<"subscriptions">>, JStr("PUT"), args)

sendUsageEventRequest(args) == Descriptor(<<"usage_events">>, JStr("POST"), args)

sendUsageEventsRequest(args) == Descriptor(<<"usage_events">>, JStr("POST"), args)

addPaymentMethodRequest(args) ==
    Descriptor(<<"payment_methods">>, JStr("POST"),
               IF Truthy(Get(args, "returnUrl"))
               THEN JObj([returnUrl |-> Get(args, "returnUrl")])
               ELSE Undefined)

getUsageMetricReportRequest(args) ==
    Descriptor(<<"usage_events", "/", Str(Get(args, "id")), "/", "report">>, Undefined,
               JObj(OptionalKey(Get(args, "period"), "period", Get(args, "period"))
                    @@ OptionalKey(Get(args, "customerId"), "customerId",
                                   Get(args, "customerId"))))

DefaultPage == 0
DefaultLimit == 10

\* A listInvoices that takes its defaults with `||` instead of `??`.
listInvoicesRequest_OrDefault(args) ==
    LET params == IF args = Undefined THEN EmptyObject ELSE args
        orElse(x, dflt) == IF Truthy(x) THEN x ELSE dflt
    IN Descriptor(<<"invoices">>, Undefined,
                  JObj([page |-> orElse(Get(params, "page"), JNum(DefaultPage)),
                        limit |-> orElse(Get(params, "limit"), JNum(DefaultLimit))]
                       @@ OptionalKey(Get(params, "status"), "status",
                                      Get(params, "status"))))

listInvoicesRequest(args) ==
    LET params == IF args = Undefined THEN EmptyObject ELSE args
    IN Descriptor(<<"invoices">>, Undefined,
                  JObj([page |-> Coalesce(Get(params, "page"), JNum(DefaultPage)),
                        limit |-> Coalesce(Get(params, "limit"), JNum(DefaultLimit))]
                       @@ OptionalKey(Get(params, "status"), "status",
                                      Get(params, "status"))))

createHostedSessionRequest(args) == Descriptor(<<"hosted_sessions">>, JStr("POST"), args)

notifyRequest(args) ==
    Descriptor(<<"notification_templates", "/", Str(Get(args, "templateId")), "/", "notify">>,
               JStr("POST"),
               SpreadObj(JObj([test |-> Coalesce(Get(args, "test"), JBool(FALSE))]), args))

listNotificationsRequest(args) == Descriptor(<<"notifications">>, JStr("GET"), args)

listNotificationTemplatesRequest(args) ==
    Descriptor(<<"notification_templates">>, Undefined, Undefined)

triggerNotificationCtaRequest(args) ==
    Descriptor(<<"notifications", "/", Str(Get(args, "id")), "/", "trigger">>,
               JStr("POST"), Undefined)

updateNotificationRequest(args) ==
    Descriptor(<<"notifications", "/", Str(Get(args, "id"))>>, JStr("PUT"),
               JObj([readAt |-> Get(args, "readAt"),
                     dismissedAt |-> Get(args, "dismissedAt")]))

getChecklistRequest(args) == Descriptor(<<"checklists">>, JStr("GET"), Undefined)

completeChecklistStepRequest(args) ==
    Descriptor(<<"checklists", "/", Str(Get(args, "checklistId")), "/", "steps", "/",
                 Str(Get(args, "checklistStepId")), "/", "complete">>,
               JStr("POST"), Undefined)

(***************************************************************************)
(* Operations the tests and the type declarations name and the class does  *)
(* not hold: written from the specification's catalogue and the tests'     *)
(* calls.                                                                  *)
(***************************************************************************)
createOneTimeChargeRequest(args) == Descriptor(<<"one_time_charges">>, JStr("POST"), args)

\* handles.join(",")
RECURSIVE JoinComma(_)
JoinComma(list) ==
    IF Len(list) = 0 THEN <<>>
    ELSE IF Len(list) = 1 THEN <<list[1].v>>
    ELSE <<list[1].v, ",">> \o JoinComma(Tail(list))

getChecklistsRequest(handles) ==
    Descriptor(<<"checklists">>, JStr("GET"),
               IF handles.k = "array" /\ Len(handles.v) > 0
               THEN JObj([handles |-> JText(JoinComma(handles.v))])
               ELSE Undefined)

skipChecklistStepRequest(args) ==
    Descriptor(<<"checklists", "/", Str(Get(args, "idOrHandle")), "/", "steps", "/",
                 Str(Get(args, "stepIdOrHandle")), "/", "skip">>,
               JStr("POST"), Undefined)

showChecklistRequest(args) ==
    Descriptor(<<"checklists", "/", Str(Get(args, "idOrHandle")), "/", "shown">>,
               JStr("POST"), Undefined)

(***************************************************************************)
(* mantleRequest, up to its first await: the URL and the fetch options.    *)
(***************************************************************************)
\* path.startsWith("/")
StartsWithSlash(path) == Len(path) > 0 /\ path[1] = "/"

\* new URLSearchParams(body): every own key with the string form of its value.
URLSearchParams(body) == [key \in DOMAIN body.v |-> Str(body.v[key])]

\* JSON.stringify(body) for an object: keys holding undefined are left out.
JSONStringify(body) ==
    [k |-> "json",
     v |-> [key \in {x \in DOMAIN body.v : body.v[x] # Undefined} |-> body.v[key]]]

NoSearch == [k |-> "none"]
NoPayload == [k |-> "none"]

\* The `method = "GET"` default of the parameter destructuring.
MethodOf(d) == IF d.method = Undefined THEN "GET" ELSE d.method.v

\* A URL that never carries a query string.
RequestUrl_NoSearch(c, d) ==
    [href |-> c.apiUrl \o (IF StartsWithSlash(d.path) THEN <<>> ELSE <<"/">>) \o d.path,
     search |-> NoSearch]

\* `${this.apiUrl}${path.startsWith("/") ? "" : "/"}${path}${body && method === "GET" ? `?${query}` : ""}`
\* held as the tokens before the "?" and the query after it (NoSearch without "?").
RequestUrl(c, d) ==
    [href |-> c.apiUrl \o (IF StartsWithSlash(d.path) THEN <<>> ELSE <<"/">>) \o d.path,
     search |-> IF Truthy(d.body) /\ MethodOf(d) = "GET"
                THEN [k |-> "query", v |-> URLSearchParams(d.body)]
                ELSE NoSearch]

\* Headers with one credential at most: the API key, or else the token.
RequestHeaders_ExactlyOne(c) ==
    [h \in {"Content-Type", "Accept", "X-Mantle-App-Id"}
            \cup (IF Truthy(c.apiKey) THEN {"X-Mantle-App-Api-Key"}
                  ELSE IF Truthy(c.customerApiToken) THEN {"X-Mantle-Customer-Api-Token"}
                  ELSE {})
       |-> CASE h = "Content-Type" -> "application/json"
             [] h = "Accept" -> "application/json"
             [] h = "X-Mantle-App-Id" -> Str(c.appId)
             [] h = "X-Mantle-App-Api-Key" -> Str(c.apiKey)
             [] h = "X-Mantle-Customer-Api-Token" -> Str(c.customerApiToken)]

RequestHeaders(c) ==
    [h \in {"Content-Type", "Accept", "X-Mantle-App-Id"}
            \cup (IF Truthy(c.apiKey) THEN {"X-Mantle-App-Api-Key"} ELSE {})
            \cup (IF Truthy(c.customerApiToken) THEN {"X-Mantle-Customer-Api-Token"} ELSE {})
       |-> CASE h = "Content-Type" -> "application/json"
             [] h = "Accept" -> "application/json"
             [] h = "X-Mantle-App-Id" -> Str(c.appId)
             [] h = "X-Mantle-App-Api-Key" -> Str(c.apiKey)
             [] h = "X-Mantle-Customer-Api-Token" -> Str(c.customerApiToken)]

\* A fetch call that carries the body as a payload whatever the method, as the
\* package's older JavaScript source did.
mantleRequestFetch_AlwaysBody(c, d) ==
    [url |-> RequestUrl(c, d),
     init |-> [method |-> MethodOf(d),
               headers |-> RequestHeaders(c),
               body |-> IF Truthy(d.body) THEN JSONStringify(d.body) ELSE NoPayload]]

\* The arguments of `fetch(url, {method, headers, body?})`.
mantleRequestFetch(c, d) ==
    [url |-> RequestUrl(c, d),
     init |-> [method |-> MethodOf(d),
               headers |-> RequestHeaders(c),
               body |-> IF Truthy(d.body) /\ MethodOf(d) # "GET"
                        THEN JSONStringify(d.body)
                        ELSE NoPayload]]

(***************************************************************************)
(* mantleRequest, after response.json(): the value it returns; and its     *)
(* catch block.                                                            *)
(***************************************************************************)
\* response.ok: the status is in the range 200-299.
ResponseOk(r) == r.status >= 200 /\ r.status <= 299

\* A non-2xx response replaced by an error object made from the status.
mantleRequestReturn_StatusError(r, result) ==
    IF ~ResponseOk(r)
    THEN JObj([error |-> JStr("Request failed"), status |-> JNum(r.status)])
    ELSE result

mantleRequestReturn(r, result) ==
    IF \/ ~ResponseOk(r)
       \/ (Truthy(result) /\ TypeOf(result) = "object" /\ HasProperty(result, "error"))
    THEN result
    ELSE result

\* console.error(`[mantleRequest] ${path} error: ${e.message}`)
mantleRequestLog(path, e) == <<"[mantleRequest] ">> \o path \o <<" error: ", e.v>>

\* A catch block that swallows the error and hands back a structured error.
mantleRequestCatch_Swallow(e) == Resolved(JObj([error |-> JStr(e.v)]))

\* catch (e) { console.error(...); throw e; }
mantleRequestCatch(e) == Rejected(e)

(***************************************************************************)
(* What each operation does with the outcome `mr` of its mantleRequest     *)
(* call: Resolved(result) or Rejected(e).  An awaited rejection, and a     *)
(* TypeError raised by the operation's own code, reject the operation.     *)
(***************************************************************************)
\* return await this.mantleRequest(...)
passThrough(mr) == mr

\* The error test of createHostedSession (`"error" in response && response.error`).
getCustomer_TruthyError(mr) ==
    IF mr.k = "rejected" THEN mr
    ELSE LET response == mr.v
         IN IF ~IsObjectLike(response) THEN Rejected(TypeErrorIn)
            ELSE IF HasProperty(response, "error") /\ Truthy(Get(response, "error"))
            THEN Resolved(response)
            ELSE Resolved(Get(response, "customer"))

\* `response.customer ?? response`: the body itself when it holds no customer.
getCustomer_WholeBody(mr) ==
    IF mr.k = "rejected" THEN mr
    ELSE LET response == mr.v
         IN IF ~IsObjectLike(response) THEN Rejected(TypeErrorIn)
            ELSE IF HasProperty(response, "error") THEN Resolved(response)
            ELSE Resolved(Coalesce(Get(response, "customer"), response))

getCustomer(mr) ==
    IF mr.k = "rejected" THEN mr
    ELSE LET response == mr.v
         IN IF ~IsObjectLike(response) THEN Rejected(TypeErrorIn)
            ELSE IF HasProperty(response, "error") THEN Resolved(response)
            ELSE Resolved(Get(response, "customer"))

Unlimited == -1

\* A boolean feature gated by the count as a limit is.
evaluateFeature_CountGated(feature, countArg) ==
    LET count == IF countArg = Undefined THEN JNum(0) ELSE countArg
        type == IF IsNullish(feature) THEN Undefined ELSE Get(feature, "type")
    IN IF type = JStr("boolean")
       THEN JBool(Truthy(Get(feature, "value")) /\ Less(count, JNum(1)))
       ELSE IF type = JStr("limit")
       THEN JBool(Less(count, Get(feature, "value"))
                  \/ Get(feature, "value") = JNum(Unlimited))
       ELSE JBool(FALSE)

\* `count <= feature.value` in place of `count < feature.value`.
evaluateFeature_AtMost(feature, countArg) ==
    LET count == IF countArg = Undefined THEN JNum(0) ELSE countArg
        type == IF IsNullish(feature) THEN Undefined ELSE Get(feature, "type")
    IN IF type = JStr("boolean") THEN Get(feature, "value")
       ELSE IF type = JStr("limit")
       THEN JBool(~Less(Get(feature, "value"), count)
                  \/ Get(feature, "value") = JNum(Unlimited))
       ELSE JBool(FALSE)

\* limit_with_overage evaluated as limit is.
evaluateFeature_Overage(feature, countArg) ==
    LET count == IF countArg = Undefined THEN JNum(0) ELSE countArg
        type == IF IsNullish(feature) THEN Undefined ELSE Get(feature, "type")
    IN IF type = JStr("boolean") THEN Get(feature, "value")
       ELSE IF type \in {JStr("limit"), JStr("limit_with_overage")}
       THEN JBool(Less(count, Get(feature, "value"))
                  \/ Get(feature, "value") = JNum(Unlimited))
       ELSE JBool(FALSE)

evaluateFeature(feature, countArg) ==
    LET count == IF countArg = Undefined THEN JNum(0) ELSE countArg
        type == IF IsNullish(feature) THEN Undefined ELSE Get(feature, "type")
    IN IF type = JStr("boolean") THEN Get(feature, "value")
       ELSE IF type = JStr("limit")
       THEN JBool(Less(count, Get(feature, "value"))
                  \/ Get(feature, "value") = JNum(Unlimited))
       ELSE JBool(FALSE)

\* customer?.features[featureKey], for a customer that passed the `in` test:
\* Thrown when customer.features is undefined or null.
FeatureOf(customer, featureKey) ==
    IF IsNullish(customer) THEN Resolved(Undefined)
    ELSE IF IsNullish(Get(customer, "features")) THEN Thrown(TypeErrorRead)
    ELSE Resolved(Get(Get(customer, "features"), featureKey))

\* `got` is the outcome of `await this.getCustomer(params.customerId)`.
isFeatureEnabled(args, got) ==
    IF got.k = "rejected" THEN got
    ELSE LET customer == got.v
             feature == FeatureOf(customer, Str(Get(args, "featureKey")))
         IN IF ~IsObjectLike(customer) THEN Rejected(TypeErrorIn)
            ELSE IF HasProperty(customer, "error") THEN Resolved(customer)
            ELSE IF feature.k = "thrown" THEN Rejected(feature.v)
            ELSE IF Truthy(feature.v)
            THEN Resolved(evaluateFeature(feature.v, Get(args, "count")))
            ELSE Resolved(JBool(FALSE))

NoLimit == -1

\* The value of any feature whose type starts with "limit".
limitForFeature_Overage(args, got) ==
    IF got.k = "rejected" THEN got
    ELSE LET customer == got.v
             feature == FeatureOf(customer, Str(Get(args, "featureKey")))
         IN IF ~IsObjectLike(customer) THEN Rejected(TypeErrorIn)
            ELSE IF HasProperty(customer, "error") THEN Resolved(customer)
            ELSE IF feature.k = "thrown" THEN Rejected(feature.v)
            ELSE IF /\ Truthy(feature.v)
                    /\ Get(feature.v, "type") \in {JStr("limit"), JStr("limit_with_overage")}
            THEN Resolved(Get(feature.v, "value"))
            ELSE Resolved(JNum(NoLimit))

limitForFeature(args, got) ==
    IF got.k = "rejected" THEN got
    ELSE LET customer == got.v
             feature == FeatureOf(customer, Str(Get(args, "featureKey")))
         IN IF ~IsObjectLike(customer) THEN Rejected(TypeErrorIn)
            ELSE IF HasProperty(customer, "error") THEN Resolved(customer)
            ELSE IF feature.k = "thrown" THEN Rejected(feature.v)
            ELSE IF Truthy(feature.v) /\ Get(feature.v, "type") = JStr("limit")
            THEN Resolved(Get(feature.v, "value"))
            ELSE Resolved(JNum(NoLimit))

EmptySession == JObj([id |-> JStr(""), url |-> JStr("")])

createHostedSession(mr) ==
    IF mr.k = "rejected" THEN mr
    ELSE LET response == mr.v
         IN IF ~IsObjectLike(response) THEN Rejected(TypeErrorIn)
            ELSE IF HasProperty(response, "error") /\ Truthy(Get(response, "error"))
            THEN Resolved(response)
            ELSE IF HasProperty(response, "session") /\ Truthy(Get(response, "session"))
            THEN Resolved(Get(response, "session"))
            ELSE Resolved(EmptySession)

notify(mr) ==
    IF mr.k = "rejected" THEN mr
    ELSE LET response == mr.v
         IN IF ~IsObjectLike(response) THEN Rejected(TypeErrorIn)
            ELSE IF HasProperty(response, "error") THEN Resolved(response)
            ELSE Resolved(Get(response, "notifies"))

(***************************************************************************)
(* The public operations.                                                  *)
(***************************************************************************)
PassThroughOps ==
    {"identify", "subscribe", "cancelSubscription", "updateSubscription",
     "sendUsageEvent", "sendUsageEvents", "addPaymentMethod", "getUsageMetricReport",
     "listInvoices", "listNotifications", "listNotificationTemplates",
     "triggerNotificationCta", "updateNotification", "getChecklist",
     "completeChecklistStep"}

FeatureOps == {"isFeatureEnabled", "limitForFeature"}

\* The operations of the tests that the class does not hold.
TestedOps == {"createOneTimeCharge", "getChecklists", "skipChecklistStep", "showChecklist"}

Ops ==
    PassThroughOps \cup FeatureOps \cup {"getCustomer", "createHostedSession", "notify"}
        \cup TestedOps

\* The mantleRequest call the operation makes.
RequestOf(op, args) ==
    CASE op = "identify" -> identifyRequest(args)
      [] op = "getCustomer" -> getCustomerRequest(args)
      [] op \in FeatureOps -> getCustomerRequest(Get(args, "customerId"))
      [] op = "subscribe" -> subscribeRequest(args)
      [] op = "cancelSubscription" -> cancelSubscriptionRequest(args)
      [] op = "updateSubscription" -> updateSubscriptionRequest(args)
      [] op = "sendUsageEvent" -> sendUsageEventRequest(args)
      [] op = "sendUsageEvents" -> sendUsageEventsRequest(args)
      [] op = "addPaymentMethod" -> addPaymentMethodRequest(args)
      [] op = "getUsageMetricReport" -> getUsageMetricReportRequest(args)
      [] op = "listInvoices" -> listInvoicesRequest(args)
      [] op = "createHostedSession" -> createHostedSessionRequest(args)
      [] op = "notify" -> notifyRequest(args)
      [] op = "listNotifications" -> listNotificationsRequest(args)
      [] op = "listNotificationTemplates" -> listNotificationTemplatesRequest(args)
      [] op = "triggerNotificationCta" -> triggerNotificationCtaRequest(args)
      [] op = "updateNotification" -> updateNotificationRequest(args)
      [] op = "getChecklist" -> getChecklistRequest(args)
      [] op = "completeChecklistStep" -> completeChecklistStepRequest(args)
      [] op = "createOneTimeCharge" -> createOneTimeChargeRequest(args)
      [] op = "getChecklists" -> getChecklistsRequest(args)
      [] op = "skipChecklistStep" -> skipChecklistStepRequest(args)
      [] op = "showChecklist" -> showChecklistRequest(args)

\* The operation's outcome, given the outcome of its mantleRequest call.
Settle(op, args, mr) ==
    CASE op = "getCustomer" -> getCustomer(mr)
      [] op = "isFeatureEnabled" -> isFeatureEnabled(args, getCustomer(mr))
      [] op = "limitForFeature" -> limitForFeature(args, getCustomer(mr))
      [] op = "createHostedSession" -> createHostedSession(mr)
      [] op = "notify" -> notify(mr)
      [] OTHER -> passThrough(mr)

(***************************************************************************)
(* The inputs: constructor parameters, operation arguments, and what the   *)
(* network answers.                                                        *)
(***************************************************************************)
CustomApiUrl == <<"https:", "/", "/", "mantle.test", "/", "api">>
\* A base URL written with a trailing slash.
SlashApiUrl == <<"https:", "/", "/", "mantle.test", "/", "api", "/">>

ClientParams ==
    [appId : {Undefined, JStr(""), JStr("app1")},
     apiKey : {Undefined, JStr("key1")},
     customerApiToken : {Undefined, JStr("tok1")},
     apiUrl : {Undefined, JText(CustomApiUrl), JText(SlashApiUrl)}]

FeatureKeys == {"seats", "exports"}
\* Keys a caller asks for: one the feature maps may hold, one no map holds.
RequestedKeys == {"seats", "constructor"}

Feature(type, value) == JObj([type |-> JStr(type), value |-> value])

Features ==
    {Feature("boolean", JBool(b)) : b \in BOOLEAN}
    \cup {Feature("limit", JNum(v)) : v \in -1..MaxLimit}
    \cup {Feature("limit_with_overage", JNum(1))}

FeatureMaps == {<<>>} \cup {key :> f : key \in FeatureKeys, f \in Features}

Customer(features) == JObj([id |-> JStr("c1"), features |-> JObj(features)])

Customers == {Customer(fm) : fm \in FeatureMaps}

Counts == {JNum(c) : c \in 0..MaxCount}

FeatureArgs ==
    {JObj(("featureKey" :> JStr(key)) @@ cid) :
        key \in RequestedKeys,
        cid \in {<<>>, "customerId" :> JStr("c1")}}

ArgsOf(op) ==
    CASE op = "identify" ->
           {JObj([platform |-> JStr("shopify"), platformId |-> JStr("shop1")])}
      [] op = "getCustomer" -> {Undefined, JStr("c1")}
      [] op = "isFeatureEnabled" ->
           FeatureArgs \cup {JObj(a.v @@ ("count" :> c)) : a \in FeatureArgs, c \in Counts}
      [] op = "limitForFeature" -> FeatureArgs
      [] op = "subscribe" ->
           {JObj([planId |-> JStr("p1"), returnUrl |-> JStr("https://app.test/return")]),
            JObj([planIds |-> JArr(<<JStr("p1"), JStr("p2")>>)])}
      [] op = "cancelSubscription" ->
           {Undefined, EmptyObject, JObj([cancelReason |-> JStr("Too expensive")])}
      [] op = "updateSubscription" ->
           {JObj([id |-> JStr("s1"), cappedAmount |-> JNum(100)])}
      [] op = "sendUsageEvent" ->
           {JObj([eventName |-> JStr("page_view")]),
            JObj([eventId |-> JStr("e1"), eventName |-> JStr("page_view"),
                  customerId |-> JStr("c1")])}
      [] op = "sendUsageEvents" ->
           {JObj([events |-> JArr(<<JObj([eventName |-> JStr("page_view")])>>)])}
      [] op = "addPaymentMethod" ->
           {EmptyObject,
            JObj([returnUrl |-> JStr("https://app.test/return")]),
            JObj([returnUrl |-> JStr("https://app.test/return"),
                  updateExistingPaymentMethods |-> JBool(FALSE)])}
      [] op = "getUsageMetricReport" ->
           {JObj([id |-> JStr("m1")]),
            JObj([id |-> JStr("m1"), period |-> JStr("daily"), customerId |-> JStr("c1")])}
      [] op = "listInvoices" ->
           {Undefined, EmptyObject,
            JObj([page |-> JNum(0), limit |-> JNum(0)]),
            JObj([page |-> JNum(2), limit |-> JNum(20), status |-> JStr("paid")])}
      [] op = "createHostedSession" ->
           {JObj([type |-> JStr("plans"), config |-> EmptyObject])}
      [] op = "notify" ->
           {JObj([templateId |-> JStr("t1")]),
            JObj([templateId |-> JStr("t1"), test |-> JBool(TRUE)]),
            JObj([templateId |-> JStr("t1"), test |-> Undefined])}
      [] op = "listNotifications" -> {Undefined, JObj([email |-> JStr("a@app.test")])}
      [] op = "listNotificationTemplates" -> {Undefined}
      [] op = "triggerNotificationCta" -> {JObj([id |-> JStr("n1")])}
      [] op = "updateNotification" ->
           {JObj([id |-> JStr("n1"), readAt |-> JStr("2024-01-01T00:00:00.000Z")])}
      [] op = "getChecklist" -> {Undefined, JStr("onboarding")}
      [] op = "completeChecklistStep" ->
           {JObj([checklistId |-> JStr("cl1"), checklistStepId |-> JStr("st1")]),
            JObj([idOrHandle |-> JStr("cl1"), stepIdOrHandle |-> JStr("st1")])}
      [] op = "createOneTimeCharge" ->
           {JObj([amount |-> JNum(99), name |-> JStr("Setup Fee"),
                  currencyCode |-> JStr("USD")])}
      [] op = "getChecklists" ->
           {Undefined, JArr(<<JStr("onboarding"), JStr("setup")>>)}
      [] op = "skipChecklistStep" ->
           {JObj([idOrHandle |-> JStr("cl1"), stepIdOrHandle |-> JStr("st2")])}
      [] op = "showChecklist" -> {JObj([idOrHandle |-> JStr("cl1")])}

Session == JObj([id |-> JStr("hs1"), url |-> JStr("https://hosted.test/hs1")])

ErrorBodies ==
    {JObj([error |-> JStr("Unauthorized"), details |-> JStr("Invalid API token")]),
     JObj([error |-> JStr("")]),
     JObj([error |-> JNull, session |-> Session]),
     JObj([error |-> JStr("Not found"), customer |-> Customer(<<>>)])}

ResponseBodies ==
    {JNull, JNum(7), JStr("OK"), JArr(<<>>), EmptyObject}
    \cup ErrorBodies
    \cup {JObj([customer |-> c]) : c \in Customers}
    \cup {JObj([customer |-> JNull]), JObj([customer |-> JObj([id |-> JStr("c1")])]),
          JObj([message |-> JStr("Something went wrong")]),
          JObj([session |-> Session]), JObj([session |-> JNull]),
          JObj([notifies |-> JArr(<<JStr("c1"), JStr("c2")>>)]),
          JObj([success |-> JBool(TRUE)])}

Statuses == {200, 401, 500}

\* What fetch rejects with, and what response.json() rejects with.
FetchErrors == {Error("Network error"), [k |-> "TypeError", v |-> "fetch failed"]}
JsonErrors == {[k |-> "SyntaxError", v |-> "Unexpected token < in JSON at position 0"]}

(***************************************************************************)
(* Several invocations in flight at once: each has its own position and    *)
(* its own locals (arguments, fetch arguments, response, outcome).         *)
(***************************************************************************)
Slots == 1..MaxInFlight

IdleFlight ==
    [pc |-> "idle", op |-> "none", args |-> Undefined, request |-> NoRequest,
     fetched |-> NoResponse, outcome |-> Pending]

\* The operations invoked side by side, and what the network answers them.
ConcurrentCalls ==
    {<<"getCustomer", JStr("c1")>>,
     <<"createHostedSession", JObj([type |-> JStr("plans"), config |-> EmptyObject])>>}

\* Responses: the status, and what json() gives.
ConcurrentResponses ==
    {[k |-> "response", status |-> 200,
      json |-> Resolved(JObj([customer |-> JObj([id |-> JStr("c1")]), session |-> Session]))],
     [k |-> "response", status |-> 401,
      json |-> Resolved(JObj([error |-> JStr("Unauthorized")]))],
     [k |-> "response", status |-> 200,
      json |-> Rejected([k |-> "SyntaxError", v |-> "Unexpected end of JSON input"])]}

ConcurrentFetchErrors == {Error("Network error")}

\* A response kept in one place for all invocations: an invocation waiting for
\* its body reads the response of another invocation that waits too.
ResponseRead_Shared(fl, s) ==
    IF \E t \in Slots : t # s /\ fl[t].pc = "json"
    THEN fl[CHOOSE t \in Slots : t # s /\ fl[t].pc = "json"].fetched
    ELSE fl[s].fetched

\* `const response = await fetch(...)`: the invocation's own local.
ResponseRead(fl, s) == fl[s].fetched

(***************************************************************************)
(* The state machine.                                                      *)
(***************************************************************************)
Init ==
    /\ window \in BOOLEAN
    /\ given = NoParams
    /\ client = NoClient
    /\ pc = "new"
    /\ call = NoCall
    /\ request = NoRequest
    /\ fetched = NoResponse
    /\ outcome = Pending
    /\ console = <<>>
    /\ callFetches = 0
    /\ nInvoked = 0
    /\ nFetch = 0
    /\ flights = [s \in Slots |-> IdleFlight]

\* new MantleClient(p): throws, or yields the client.
Construct ==
    /\ pc = "new"
    /\ \E p \in ClientParams :
         LET made == MantleClient(p, window)
         IN /\ given' = p
            /\ IF made.k = "thrown"
               THEN /\ pc' = "failed"
                    /\ outcome' = made
                    /\ client' = client
               ELSE /\ pc' = "idle"
                    /\ outcome' = outcome
                    /\ client' = made.v
    /\ UNCHANGED <<window, flights, call, request, fetched, console, callFetches, nInvoked, nFetch>>

\* A caller invokes a public operation: the operation builds its request and
\* mantleRequest runs up to `await fetch(url, init)`.
Invoke ==
    /\ pc = "idle"
    /\ nInvoked < MaxInvocations
    /\ \E op \in Ops : \E args \in ArgsOf(op) :
         LET d == RequestOf(op, args)
         IN /\ call' = [op |-> op, args |-> args, path |-> d.path,
                       method |-> MethodOf(d), body |-> d.body]
            /\ request' = mantleRequestFetch(client, d)
    /\ pc' = "fetch"
    /\ fetched' = NoResponse
    /\ outcome' = Pending
    /\ console' = <<>>
    /\ callFetches' = 1
    /\ nInvoked' = nInvoked + 1
    /\ nFetch' = nFetch + 1
    /\ UNCHANGED <<window, given, flights, client>>

\* A mantleRequest that would call fetch a second time after a first rejection.
FetchRejects_Retry ==
    /\ pc = "fetch"
    /\ IF callFetches = 1
       THEN /\ pc' = "fetch"
            /\ callFetches' = callFetches + 1
            /\ nFetch' = nFetch + 1
            /\ UNCHANGED <<fetched, console, outcome>>
       ELSE /\ \E e \in FetchErrors :
                 /\ fetched' = [k |-> "failed", v |-> e]
                 /\ console' = Append(console, mantleRequestLog(call.path, e))
                 /\ outcome' = Settle(call.op, call.args, mantleRequestCatch(e))
            /\ pc' = "done"
            /\ UNCHANGED <<callFetches, nFetch>>
    /\ UNCHANGED <<window, given, flights, client, call, request, nInvoked>>

\* fetch rejects: the catch block logs and rethrows, and the operation rejects.
FetchRejects ==
    /\ pc = "fetch"
    /\ \E e \in FetchErrors :
         /\ fetched' = [k |-> "failed", v |-> e]
         /\ console' = Append(console, mantleRequestLog(call.path, e))
         /\ outcome' = Settle(call.op, call.args, mantleRequestCatch(e))
    /\ pc' = "done"
    /\ UNCHANGED <<window, given, flights, client, call, request, callFetches, nInvoked, nFetch>>

\* fetch resolves with a Response; mantleRequest runs up to `await response.json()`.
FetchResolves ==
    /\ pc = "fetch"
    /\ \E status \in Statuses :
         fetched' = [k |-> "response", status |-> status, json |-> Pending]
    /\ pc' = "json"
    /\ UNCHANGED <<window, given, flights, client, call, request, outcome, console, callFetches,
                   nInvoked, nFetch>>

\* response.json() rejects: the catch block logs and rethrows.
JsonRejects ==
    /\ pc = "json"
    /\ \E e \in JsonErrors :
         /\ fetched' = [fetched EXCEPT !.json = Rejected(e)]
         /\ console' = Append(console, mantleRequestLog(call.path, e))
         /\ outcome' = Settle(call.op, call.args, mantleRequestCatch(e))
    /\ pc' = "done"
    /\ UNCHANGED <<window, given, flights, client, call, request, callFetches, nInvoked, nFetch>>

\* A client that drops its customer token when the service answers 401.
JsonResolves_ForgetToken ==
    /\ pc = "json"
    /\ \E body \in ResponseBodies :
         /\ fetched' = [fetched EXCEPT !.json = Resolved(body)]
         /\ outcome' = Settle(call.op, call.args,
                              Resolved(mantleRequestReturn(fetched, body)))
    /\ client' = IF fetched.status = 401
                 THEN [client EXCEPT !.customerApiToken = Undefined]
                 ELSE client
    /\ pc' = "done"
    /\ UNCHANGED <<window, given, flights, call, request, console, callFetches, nInvoked, nFetch>>

\* response.json() resolves with the parsed body: mantleRequest returns and the
\* operation runs to its end.
JsonResolves ==
    /\ pc = "json"
    /\ \E body \in ResponseBodies :
         /\ fetched' = [fetched EXCEPT !.json = Resolved(body)]
         /\ outcome' = Settle(call.op, call.args,
                              Resolved(mantleRequestReturn(fetched, body)))
    /\ pc' = "done"
    /\ UNCHANGED <<window, given, flights, client, call, request, console, callFetches, nInvoked, nFetch>>

\* The caller has taken the settled promise; nothing of the invocation is kept.
Release ==
    /\ pc = "done"
    /\ pc' = "idle"
    /\ call' = NoCall
    /\ request' = NoRequest
    /\ fetched' = NoResponse
    /\ outcome' = Pending
    /\ console' = <<>>
    /\ callFetches' = 0
    /\ UNCHANGED <<window, given, flights, client, nInvoked, nFetch>>

Next ==
    \/ Construct
    \/ Invoke
    \/ FetchRejects
    \/ FetchResolves
    \/ JsonRejects
    \/ JsonResolves
    \/ Release

Spec == Init /\ [][Next]_vars

(***************************************************************************)
(* The same client with several invocations in flight: each slot runs      *)
(* mantleRequest and its operation on its own, interleaved at the awaits.  *)
(***************************************************************************)
\* Slot s invokes an operation: runs up to `await fetch(url, init)`.
FlightInvoke(s) ==
    /\ pc = "idle"
    /\ flights[s].pc = "idle"
    /\ \E c \in ConcurrentCalls :
         flights' = [flights EXCEPT ![s] =
                        [pc |-> "fetch", op |-> c[1], args |-> c[2],
                         request |-> mantleRequestFetch(client, RequestOf(c[1], c[2])),
                         fetched |-> NoResponse, outcome |-> Pending]]
    /\ UNCHANGED <<window, given, client, pc, call, request, fetched, outcome, console,
                   callFetches, nInvoked, nFetch>>

\* The fetch of slot s rejects: log, rethrow, the operation rejects.
FlightFetchRejects(s) ==
    /\ flights[s].pc = "fetch"
    /\ \E e \in ConcurrentFetchErrors :
         /\ flights' = [flights EXCEPT ![s].pc = "done",
                                       ![s].fetched = [k |-> "failed", v |-> e],
                                       ![s].outcome = Settle(flights[s].op, flights[s].args,
                                                             mantleRequestCatch(e))]
         /\ console' = Append(console,
                              mantleRequestLog(RequestOf(flights[s].op, flights[s].args).path, e))
    /\ UNCHANGED <<window, given, client, pc, call, request, fetched, outcome,
                   callFetches, nInvoked, nFetch>>

\* The fetch of slot s resolves with the Response the network made for it (its
\* status, and what its json() will give); slot s runs up to `await response.json()`.
FlightFetchResolves(s) ==
    /\ flights[s].pc = "fetch"
    /\ \E response \in ConcurrentResponses :
         flights' = [flights EXCEPT ![s].pc = "json", ![s].fetched = response]
    /\ UNCHANGED <<window, given, client, pc, call, request, fetched, outcome, console,
                   callFetches, nInvoked, nFetch>>

\* response.json() of slot s settles: mantleRequest returns the body or logs and
\* rethrows, and the operation runs to its end.
FlightJsonSettles(s) ==
    /\ flights[s].pc = "json"
    /\ LET response == ResponseRead(flights, s)
       IN IF response.json.k = "rejected"
          THEN /\ flights' = [flights EXCEPT ![s].pc = "done",
                                             ![s].outcome =
                                                 Settle(flights[s].op, flights[s].args,
                                                        mantleRequestCatch(response.json.v))]
               /\ console' = Append(console,
                                    mantleRequestLog(RequestOf(flights[s].op,
                                                               flights[s].args).path,
                                                     response.json.v))
          ELSE /\ flights' = [flights EXCEPT ![s].pc = "done",
                                             ![s].outcome =
                                                 Settle(flights[s].op, flights[s].args,
                                                        Resolved(mantleRequestReturn(
                                                            response, response.json.v)))]
               /\ console' = console
    /\ UNCHANGED <<window, given, client, pc, call, request, fetched, outcome,
                   callFetches, nInvoked, nFetch>>

NextConcurrent ==
    \/ Construct
    \/ \E s \in Slots : FlightInvoke(s)
    \/ \E s \in Slots : FlightFetchRejects(s)
    \/ \E s \in Slots : FlightFetchResolves(s)
    \/ \E s \in Slots : FlightJsonSettles(s)

SpecConcurrent == Init /\ [][NextConcurrent]_vars

(***************************************************************************)
(* Vocabulary of the properties.                                           *)
(***************************************************************************)
\* The invocation is settled and the network call failed at fetch or at json().
TransportFailed ==
    /\ pc = "done"
    /\ \/ fetched.k = "failed"
       \/ (fetched.k = "response" /\ fetched.json.k = "rejected")

TransportError == IF fetched.k = "failed" THEN fetched.v ELSE fetched.json.v

\* The invocation is settled and the HTTP call completed with a parsed body.
Parsed == pc = "done" /\ fetched.k = "response" /\ fetched.json.k = "resolved"

ParsedBody == fetched.json.v

\* An object containing an `error` key.
IsErrorBody(b) == b.k = "object" /\ "error" \in DOMAIN b.v

\* `line` contains `path` as a contiguous run of tokens.
ContainsPath(line, path) ==
    \E i \in 1..(Len(line) - Len(path) + 1) : SubSeq(line, i, i + Len(path) - 1) = path

\* The parsed body is {customer: c} without `error`, c a customer record with a
\* features map (and, as the Customer type has it, no `error` field of its own).
GotCustomer ==
    /\ Parsed
    /\ ParsedBody.k = "object"
    /\ "error" \notin DOMAIN ParsedBody.v
    /\ "customer" \in DOMAIN ParsedBody.v
    /\ ParsedBody.v.customer.k = "object"
    /\ "error" \notin DOMAIN ParsedBody.v.customer.v
    /\ "features" \in DOMAIN ParsedBody.v.customer.v
    /\ ParsedBody.v.customer.v.features.k = "object"

FeaturesMap == ParsedBody.v.customer.v.features.v

RequestedKey == call.args.v.featureKey.v

\* The features map holds the requested key.
HoldsFeature == GotCustomer /\ RequestedKey \in DOMAIN FeaturesMap

HeldFeature == FeaturesMap[RequestedKey].v

\* The `count` argument, 0 when omitted.
CountGiven == "count" \in DOMAIN call.args.v
CountOrZero == IF CountGiven THEN call.args.v.count.v ELSE 0

(***************************************************************************)
(* C1.  Whenever the HTTP call completes and the parsed body is an object  *)
(* containing an `error` key, the operation resolves to exactly that body, *)
(* whatever the status and whatever the value under `error`.               *)
(* createHostedSession breaks it: it tests the value of `error` as well.   *)
(***************************************************************************)
C1_ErrorBodyVerbatim ==
    (Parsed /\ IsErrorBody(ParsedBody)) => outcome = Resolved(ParsedBody)

(***************************************************************************)
(* C2.  When fetch or response.json() rejects, the operation rejects with  *)
(* that same error, nothing is returned, the invocation has issued its one *)
(* fetch call and no other, and exactly one console.error line, holding    *)
(* the request path, was emitted.                                          *)
(***************************************************************************)
C2_TransportFailureRejects ==
    TransportFailed =>
        /\ outcome = Rejected(TransportError)
        /\ callFetches = 1
        /\ Len(console) = 1
        /\ ContainsPath(console[1], call.path)

C2_Witness ==
    /\ TransportFailed
    /\ fetched.k = "response"
    /\ call.op = "isFeatureEnabled"
    /\ outcome.k = "rejected"
    /\ console = <<mantleRequestLog(<<"customer">>, TransportError)>>

(***************************************************************************)
(* C3.  For a customer whose features map holds the requested key with a   *)
(* feature of type boolean, isFeatureEnabled resolves to that feature's    *)
(* value, whatever the count.                                              *)
(***************************************************************************)
C3_BooleanFeature ==
    (call.op = "isFeatureEnabled" /\ HoldsFeature /\ HeldFeature.type = JStr("boolean"))
        => outcome = Resolved(HeldFeature.value)

C3_Witness ==
    /\ call.op = "isFeatureEnabled"
    /\ HoldsFeature
    /\ HeldFeature = Feature("boolean", JBool(TRUE)).v
    /\ CountGiven
    /\ CountOrZero = MaxCount
    /\ outcome = Resolved(JBool(TRUE))

(***************************************************************************)
(* C4.  For a feature of type limit with value v and count c (0 when the   *)
(* count is omitted): if v >= 0, isFeatureEnabled resolves to true exactly *)
(* when c < v; if v = -1 it resolves to true for every c.                  *)
(***************************************************************************)
C4_LimitFeature ==
    (call.op = "isFeatureEnabled" /\ HoldsFeature /\ HeldFeature.type = JStr("limit"))
        => LET v == HeldFeature.value.v
           IN /\ v >= 0 => outcome = Resolved(JBool(CountOrZero < v))
              /\ v = -1 => outcome = Resolved(JBool(TRUE))

\* count equal to the limit: not enabled.
C4_Witness ==
    /\ call.op = "isFeatureEnabled"
    /\ HoldsFeature
    /\ HeldFeature.type = JStr("limit")
    /\ CountGiven
    /\ HeldFeature.value.v = CountOrZero
    /\ CountOrZero > 0
    /\ outcome = Resolved(JBool(FALSE))

(***************************************************************************)
(* C5.  isFeatureEnabled resolves to false whenever the requested key is   *)
(* absent from the features map or the feature's type is neither boolean   *)
(* nor limit, for every count and value.                                   *)
(***************************************************************************)
C5_OtherwiseFalse ==
    (/\ call.op = "isFeatureEnabled"
     /\ GotCustomer
     /\ \/ RequestedKey \notin DOMAIN FeaturesMap
        \/ HeldFeature.type \notin {JStr("boolean"), JStr("limit")})
        => outcome = Resolved(JBool(FALSE))

C5_Witness ==
    /\ call.op = "isFeatureEnabled"
    /\ HoldsFeature
    /\ HeldFeature.type = JStr("limit_with_overage")
    /\ CountOrZero < HeldFeature.value.v
    /\ outcome = Resolved(JBool(FALSE))

(***************************************************************************)
(* C6.  limitForFeature resolves to the feature's value when the requested *)
(* key is held with type limit, and to -1 in every other case; as first    *)
(* stated, a result of -1 is distinct from every value returned for a      *)
(* limit-typed feature.                                                    *)
(***************************************************************************)
C6_LimitOrDistinctSentinel ==
    (call.op = "limitForFeature" /\ GotCustomer)
        => IF HoldsFeature /\ HeldFeature.type = JStr("limit")
           THEN outcome = Resolved(HeldFeature.value) /\ outcome # Resolved(JNum(-1))
           ELSE outcome = Resolved(JNum(-1))

\* C6 as amended: the value for a limit-typed feature, -1 otherwise; the two
\* coincide exactly when the limit-typed feature's own value is -1 (unlimited).
C6_LimitOrSentinel ==
    (call.op = "limitForFeature" /\ GotCustomer)
        => IF HoldsFeature /\ HeldFeature.type = JStr("limit")
           THEN /\ outcome = Resolved(HeldFeature.value)
                /\ outcome = Resolved(JNum(-1)) <=> HeldFeature.value.v = -1
           ELSE outcome = Resolved(JNum(-1))

\* A limit-typed feature of value -1: the result equals the sentinel.
C6_Witness ==
    /\ call.op = "limitForFeature"
    /\ HoldsFeature
    /\ HeldFeature = Feature("limit", JNum(-1)).v
    /\ outcome = Resolved(JNum(-1))

(***************************************************************************)
(* C7.  When getCustomer yields a structured error (an object with an      *)
(* `error` key), isFeatureEnabled and limitForFeature resolve to that same *)
(* object: never to false, to -1 or to an evaluated feature.               *)
(***************************************************************************)
C7_HelperPropagatesError ==
    (call.op \in FeatureOps /\ Parsed /\ IsErrorBody(ParsedBody))
        => outcome = Resolved(ParsedBody)

C7_Witness ==
    /\ call.op = "limitForFeature"
    /\ Parsed
    /\ ParsedBody = JObj([error |-> JStr("")])
    /\ outcome = Resolved(ParsedBody)

(***************************************************************************)
(* C8.  Whenever the HTTP call completes and the body parses as JSON, the  *)
(* operation resolves: it rejects only on a transport or parse failure.    *)
(* getCustomer, the feature helpers, createHostedSession and notify break  *)
(* it with a TypeError on bodies that are no objects or hold no customer.  *)
(***************************************************************************)
C8_ParsedNeverRejects == Parsed => outcome.k = "resolved"

(***************************************************************************)
(* C9.  As first stated, in the case it adds to C1: a non-2xx response     *)
(* whose body is an object without an `error` key is the operation's       *)
(* result as it is, no field extracted from it, no placeholder.            *)
(***************************************************************************)
C9_NonOkBodyIsResult ==
    (Parsed /\ ~ResponseOk(fetched) /\ ParsedBody.k = "object" /\ ~IsErrorBody(ParsedBody))
        => outcome = Resolved(ParsedBody)

\* C9 as amended: the operations that return mantleRequest's result directly
\* resolve to the body of a non-2xx response; getCustomer, createHostedSession
\* and notify unwrap a non-2xx body without `error` as they do a 2xx one.
C9_NonOkPassThrough ==
    (Parsed /\ ~ResponseOk(fetched))
        => /\ call.op \in PassThroughOps => outcome = Resolved(ParsedBody)
           /\ (ParsedBody.k = "object" /\ ~IsErrorBody(ParsedBody))
                => LET field(key) == IF key \in DOMAIN ParsedBody.v
                                     THEN ParsedBody.v[key]
                                     ELSE Undefined
                   IN /\ call.op = "getCustomer" => outcome = Resolved(field("customer"))
                      /\ call.op = "notify" => outcome = Resolved(field("notifies"))
                      /\ call.op = "createHostedSession"
                           => outcome = Resolved(IF Truthy(field("session"))
                                                 THEN field("session")
                                                 ELSE EmptySession)

C9_Witness ==
    /\ Parsed
    /\ fetched.status = 500
    /\ call.op = "updateSubscription"
    /\ ParsedBody = JObj([message |-> JStr("Something went wrong")])
    /\ outcome = Resolved(ParsedBody)

CallFailed ==
    \/ TransportFailed
    \/ (Parsed /\ (~ResponseOk(fetched) \/ IsErrorBody(ParsedBody)))

C11_OneFetchPerInvocation ==
    /\ nFetch <= nInvoked
    /\ callFetches <= 1
    /\ (call # NoCall /\ call.op \in FeatureOps) => callFetches = 1
    /\ CallFailed => callFetches = 1

\* The second invocation, a feature helper, has failed at fetch: two fetches in all.
C11_Witness ==
    /\ nInvoked = 2
    /\ nFetch = 2
    /\ call.op = "limitForFeature"
    /\ TransportFailed
    /\ fetched.k = "failed"
    /\ callFetches = 1

(***************************************************************************)
(* Vocabulary of the construction and request-building properties.         *)
(***************************************************************************)
\* The constructor has run.
Constructed == given # NoParams

\* The constructor threw an Error with this message and left no client.
ThrewNoClient(message) ==
    /\ pc = "failed"
    /\ client = NoClient
    /\ outcome = Thrown(Error(message))

\* fetch has been called for the invocation at hand.
Issued == request # NoRequest

SentHeaders == request.init.headers

(***************************************************************************)
(* C12.  Construction with a missing or empty appId throws                 *)
(* 'MantleClient appId is required' and yields no client, whatever the     *)
(* other parameters (and whether or not `window` is defined); a            *)
(* constructed client has a non-empty appId.                               *)
(***************************************************************************)
C12_AppIdRequired ==
    /\ (Constructed /\ ~Truthy(given.appId))
           => ThrewNoClient("MantleClient appId is required")
    /\ client # NoClient
           => (client.appId.k = "string" /\ client.appId.v # "")

\* An empty appId with an apiKey, a token and a base URL, where `window` is defined.
C12_Witness ==
    /\ window
    /\ given # NoParams
    /\ given.appId = JStr("")
    /\ given.apiKey = JStr("key1")
    /\ given.customerApiToken = JStr("tok1")
    /\ given.apiUrl # Undefined
    /\ ThrewNoClient("MantleClient appId is required")

(***************************************************************************)
(* C13.  As claimed: whenever `window` is defined and an apiKey is         *)
(* supplied, the constructor throws 'MantleClient apiKey should never be   *)
(* used in the browser' and yields no client.  Violated when the appId is  *)
(* missing as well: the appId test comes first and its error is thrown.    *)
(***************************************************************************)
C13_BrowserApiKeyAlwaysBrowserError ==
    (Constructed /\ window /\ Truthy(given.apiKey))
        => ThrewNoClient("MantleClient apiKey should never be used in the browser")

(***************************************************************************)
(* C13, amended.  With `window` defined, an apiKey supplied and a          *)
(* non-empty appId, the constructor throws the browser error and yields no *)
(* client; with an apiKey and no appId it throws the appId error; in both  *)
(* cases there is no client.  A client constructed where `window` is       *)
(* defined holds no apiKey and its requests carry no                       *)
(* X-Mantle-App-Api-Key header; construction there with an appId and a     *)
(* customerApiToken only succeeds.                                         *)
(***************************************************************************)
C13_NoApiKeyInBrowser ==
    /\ (Constructed /\ window /\ Truthy(given.apiKey))
           => IF Truthy(given.appId)
              THEN ThrewNoClient("MantleClient apiKey should never be used in the browser")
              ELSE ThrewNoClient("MantleClient appId is required")
    /\ (window /\ client # NoClient)
           => /\ ~Truthy(client.apiKey)
              /\ Issued => "X-Mantle-App-Api-Key" \notin DOMAIN SentHeaders
    /\ (Constructed /\ window /\ Truthy(given.appId) /\ ~Truthy(given.apiKey)
           /\ Truthy(given.customerApiToken))
           => /\ pc # "failed"
              /\ client # NoClient
              /\ client.customerApiToken = given.customerApiToken

\* In the browser, appId and apiKey supplied: the browser error.
C13_Witness ==
    /\ window
    /\ given # NoParams
    /\ given.appId = JStr("app1")
    /\ given.apiKey = JStr("key1")
    /\ ThrewNoClient("MantleClient apiKey should never be used in the browser")

(***************************************************************************)
(* C14.  As claimed: every constructed client holds at least one of apiKey *)
(* and customerApiToken, and every request issued carries a credential     *)
(* header.  Violated: the constructor has no credential test.              *)
(***************************************************************************)
C14_ClientHoldsCredential ==
    /\ client # NoClient
           => (Truthy(client.apiKey) \/ Truthy(client.customerApiToken))
    /\ Issued
           => \/ "X-Mantle-App-Api-Key" \in DOMAIN SentHeaders
              \/ "X-Mantle-Customer-Api-Token" \in DOMAIN SentHeaders

(***************************************************************************)
(* C14, amended.  The constructor has no credential test: construction     *)
(* with a non-empty appId and neither apiKey nor customerApiToken succeeds *)
(* (`window` defined or not), the client holds neither credential, and the *)
(* requests it issues carry no credential header.  A request carries a     *)
(* credential header exactly when the client holds that credential.        *)
(***************************************************************************)
C14_CredentialOptional ==
    /\ (Constructed /\ Truthy(given.appId)
           /\ ~Truthy(given.apiKey) /\ ~Truthy(given.customerApiToken))
           => /\ pc # "failed"
              /\ client # NoClient
              /\ ~Truthy(client.apiKey)
              /\ ~Truthy(client.customerApiToken)
              /\ Issued => DOMAIN SentHeaders = {"Content-Type", "Accept", "X-Mantle-App-Id"}
    /\ Issued
           => /\ "X-Mantle-App-Api-Key" \in DOMAIN SentHeaders <=> Truthy(client.apiKey)
              /\ "X-Mantle-Customer-Api-Token" \in DOMAIN SentHeaders
                    <=> Truthy(client.customerApiToken)

\* A client constructed from an appId alone has issued a request.
C14_Witness ==
    /\ given # NoParams
    /\ given.appId = JStr("app1")
    /\ given.apiKey = Undefined
    /\ given.customerApiToken = Undefined
    /\ client # NoClient
    /\ Issued
    /\ DOMAIN SentHeaders = {"Content-Type", "Accept", "X-Mantle-App-Id"}

(***************************************************************************)
(* C15.  Every request carries Content-Type and Accept application/json    *)
(* and X-Mantle-App-Id equal to the appId; X-Mantle-App-Api-Key, equal to  *)
(* the apiKey, exactly when the client holds an apiKey; and                *)
(* X-Mantle-Customer-Api-Token, equal to the token, exactly when it holds  *)
(* a customerApiToken; no other header.                                    *)
(***************************************************************************)
C15_Headers ==
    Issued =>
        /\ DOMAIN SentHeaders \subseteq
               {"Content-Type", "Accept", "X-Mantle-App-Id",
                "X-Mantle-App-Api-Key", "X-Mantle-Customer-Api-Token"}
        /\ "Content-Type" \in DOMAIN SentHeaders
        /\ SentHeaders["Content-Type"] = "application/json"
        /\ "Accept" \in DOMAIN SentHeaders
        /\ SentHeaders["Accept"] = "application/json"
        /\ "X-Mantle-App-Id" \in DOMAIN SentHeaders
        /\ SentHeaders["X-Mantle-App-Id"] = client.appId.v
        /\ IF Truthy(client.apiKey)
           THEN /\ "X-Mantle-App-Api-Key" \in DOMAIN SentHeaders
                /\ SentHeaders["X-Mantle-App-Api-Key"] = client.apiKey.v
           ELSE "X-Mantle-App-Api-Key" \notin DOMAIN SentHeaders
        /\ IF Truthy(client.customerApiToken)
           THEN /\ "X-Mantle-Customer-Api-Token" \in DOMAIN SentHeaders
                /\ SentHeaders["X-Mantle-Customer-Api-Token"] = client.customerApiToken.v
           ELSE "X-Mantle-Customer-Api-Token" \notin DOMAIN SentHeaders

\* Both credentials configured: both headers sent.
C15_Witness ==
    /\ Issued
    /\ client.apiKey = JStr("key1")
    /\ client.customerApiToken = JStr("tok1")
    /\ SentHeaders["X-Mantle-App-Api-Key"] = "key1"
    /\ SentHeaders["X-Mantle-Customer-Api-Token"] = "tok1"
    /\ SentHeaders["X-Mantle-App-Id"] = "app1"

(***************************************************************************)
(* C16.  The body handed to mantleRequest is encoded in one place, chosen  *)
(* by the method: GET with a body puts each key of the body, with the      *)
(* string form of its value, in the query string and sends no payload;     *)
(* POST, PUT and DELETE with a body send it as the JSON payload and the    *)
(* URL has no query string; without a body there is neither.               *)
(***************************************************************************)
C16_BodyInOnePlace ==
    Issued =>
        /\ request.init.method = call.method
        /\ call.method \in {"GET", "POST", "PUT", "DELETE"}
        /\ (Truthy(call.body) /\ call.method = "GET")
              => /\ request.url.search.k = "query"
                 /\ DOMAIN request.url.search.v = DOMAIN call.body.v
                 /\ \A key \in DOMAIN call.body.v :
                        request.url.search.v[key] = Str(call.body.v[key])
                 /\ request.init.body = NoPayload
        /\ (Truthy(call.body) /\ call.method # "GET")
              => /\ request.url.search = NoSearch
                 /\ request.init.body.k = "json"
                 /\ \A key \in DOMAIN call.body.v :
                        IF call.body.v[key] = Undefined
                        THEN key \notin DOMAIN request.init.body.v
                        ELSE /\ key \in DOMAIN request.init.body.v
                             /\ request.init.body.v[key] = call.body.v[key]
                 /\ DOMAIN request.init.body.v \subseteq DOMAIN call.body.v
        /\ ~Truthy(call.body)
              => /\ request.url.search = NoSearch
                 /\ request.init.body = NoPayload

\* A PUT with a body: the payload, and no query string.
C16_Witness ==
    /\ Issued
    /\ call.op = "updateSubscription"
    /\ call.method = "PUT"
    /\ Truthy(call.body)
    /\ request.init.body = JSONStringify(call.body)
    /\ request.url.search = NoSearch

(***************************************************************************)
(* C17.  As claimed: the target URL is the base URL and the path joined by *)
(* exactly one slash, whether or not the base URL ends with a slash and    *)
(* the path starts with one.  Violated for a base URL that ends with a     *)
(* slash: the code looks at the path only, and the URL has two slashes.    *)
(***************************************************************************)
RECURSIVE StripTrailingSlashes(_)
StripTrailingSlashes(u) ==
    IF Len(u) > 0 /\ u[Len(u)] = "/"
    THEN StripTrailingSlashes(SubSeq(u, 1, Len(u) - 1))
    ELSE u

RECURSIVE StripLeadingSlashes(_)
StripLeadingSlashes(path) ==
    IF Len(path) > 0 /\ path[1] = "/"
    THEN StripLeadingSlashes(Tail(path))
    ELSE path

C17_ExactlyOneSlash ==
    Issued =>
        request.url.href =
            StripTrailingSlashes(client.apiUrl) \o <<"/">> \o StripLeadingSlashes(call.path)

(***************************************************************************)
(* C18.  getCustomer issues a GET to `customer`, without payload; given an *)
(* id the query string is exactly id=<id>, and given none the URL has no   *)
(* query string.                                                           *)
(***************************************************************************)
C18_GetCustomerRequest ==
    (Issued /\ call.op = "getCustomer") =>
        /\ request.init.method = "GET"
        /\ call.path = <<"customer">>
        /\ request.url.href = client.apiUrl \o <<"/", "customer">>
        /\ request.init.body = NoPayload
        /\ IF call.args = Undefined
           THEN request.url.search = NoSearch
           ELSE /\ request.url.search.k = "query"
                /\ request.url.search.v = [id |-> call.args.v]

C18_Witness ==
    /\ Issued
    /\ call.op = "getCustomer"
    /\ call.args = JStr("c1")
    /\ request.url.search = [k |-> "query", v |-> [id |-> "c1"]]

(***************************************************************************)
(* C19.  cancelSubscription issues a DELETE to `subscriptions`, without    *)
(* query string; given a cancelReason the JSON payload is exactly          *)
(* {cancelReason: <reason>}, and called without argument or without        *)
(* cancelReason the request has no payload.                                *)
(***************************************************************************)
C19_CancelSubscriptionRequest ==
    (Issued /\ call.op = "cancelSubscription") =>
        /\ request.init.method = "DELETE"
        /\ call.path = <<"subscriptions">>
        /\ request.url.href = client.apiUrl \o <<"/", "subscriptions">>
        /\ request.url.search = NoSearch
        /\ IF call.args # Undefined /\ "cancelReason" \in DOMAIN call.args.v
           THEN request.init.body =
                    [k |-> "json", v |-> [cancelReason |-> call.args.v.cancelReason]]
           ELSE request.init.body = NoPayload

C19_Witness ==
    /\ Issued
    /\ call.op = "cancelSubscription"
    /\ call.args = JObj([cancelReason |-> JStr("Too expensive")])
    /\ request.init.body = [k |-> "json", v |-> [cancelReason |-> JStr("Too expensive")]]

(***************************************************************************)
(* C20.  listInvoices issues a GET to `invoices`, without payload, whose   *)
(* query string always has page and limit: 0 and 10 when not given, the    *)
(* caller's values when given, an explicit 0 included; it has status, with *)
(* the caller's value, exactly when the caller gives a status; and nothing *)
(* else.                                                                   *)
(***************************************************************************)
C20_ListInvoicesRequest ==
    (Issued /\ call.op = "listInvoices") =>
        LET params == IF call.args = Undefined THEN <<>> ELSE call.args.v
            query == request.url.search.v
        IN /\ request.init.method = "GET"
           /\ call.path = <<"invoices">>
           /\ request.url.href = client.apiUrl \o <<"/", "invoices">>
           /\ request.init.body = NoPayload
           /\ request.url.search.k = "query"
           /\ {"page", "limit"} \subseteq DOMAIN query
           /\ DOMAIN query \subseteq {"page", "limit", "status"}
           /\ query["page"] = IF "page" \in DOMAIN params
                              THEN ToString(params["page"].v) ELSE "0"
           /\ query["limit"] = IF "limit" \in DOMAIN params
                               THEN ToString(params["limit"].v) ELSE "10"
           /\ "status" \in DOMAIN query <=> "status" \in DOMAIN params
           /\ "status" \in DOMAIN params => query["status"] = params["status"].v

\* An explicit page 0 and limit 0 are sent as given.
C20_Witness ==
    /\ Issued
    /\ call.op = "listInvoices"
    /\ call.args = JObj([page |-> JNum(0), limit |-> JNum(0)])
    /\ request.url.search = [k |-> "query", v |-> [page |-> "0", limit |-> "0"]]

(***************************************************************************)
(* C21.  createHostedSession resolves to the parsed body itself when the   *)
(* body has an `error` key, otherwise to the body's `session` when it has  *)
(* one, otherwise to the placeholder {id: "", url: ""}; so an error body   *)
(* is never reported as a session or as the placeholder.  The code breaks  *)
(* it: it also requires the value under `error` to be truthy.              *)
(***************************************************************************)
C21_HostedSessionResult ==
    (call.op = "createHostedSession" /\ Parsed /\ ParsedBody.k = "object") =>
        /\ request.init.method = "POST"
        /\ call.path = <<"hosted_sessions">>
        /\ outcome = Resolved(IF IsErrorBody(ParsedBody) THEN ParsedBody
                              ELSE IF "session" \in DOMAIN ParsedBody.v
                                      /\ Truthy(ParsedBody.v.session)
                              THEN ParsedBody.v.session
                              ELSE EmptySession)
        /\ IsErrorBody(ParsedBody)
              => (outcome # Resolved(EmptySession) /\ outcome # Resolved(Session))

(***************************************************************************)
(* C22.  Each pass-through operation issues its request with the method    *)
(* and path of the catalogue, and on a 2xx response whose body has no      *)
(* `error` key resolves to the parsed body unchanged; subscribe sends its  *)
(* parameters (planId or planIds and the others) as the JSON payload.      *)
(***************************************************************************)
\* The catalogue: method and path of each pass-through operation, the path's
\* identifier taken from the caller's argument.
Catalogue(op, args) ==
    CASE op = "identify" -> <<"POST", <<"identify">> >>
      [] op = "subscribe" -> <<"POST", <<"subscriptions">> >>
      [] op = "updateSubscription" -> <<"PUT", <<"subscriptions">> >>
      [] op = "sendUsageEvent" -> <<"POST", <<"usage_events">> >>
      [] op = "sendUsageEvents" -> <<"POST", <<"usage_events">> >>
      [] op = "addPaymentMethod" -> <<"POST", <<"payment_methods">> >>
      [] op = "getUsageMetricReport" ->
           <<"GET", <<"usage_events", "/", args.v.id.v, "/", "report">> >>
      [] op = "listNotifications" -> <<"GET", <<"notifications">> >>
      [] op = "listNotificationTemplates" -> <<"GET", <<"notification_templates">> >>
      [] op = "triggerNotificationCta" ->
           <<"POST", <<"notifications", "/", args.v.id.v, "/", "trigger">> >>
      [] op = "updateNotification" -> <<"PUT", <<"notifications", "/", args.v.id.v>> >>

CatalogueOps ==
    {"identify", "subscribe", "updateSubscription", "sendUsageEvent", "sendUsageEvents",
     "addPaymentMethod", "getUsageMetricReport", "listNotifications",
     "listNotificationTemplates", "triggerNotificationCta", "updateNotification"}

C22_PassThroughCatalogue ==
    (Issued /\ call.op \in CatalogueOps) =>
        /\ request.init.method = Catalogue(call.op, call.args)[1]
        /\ call.path = Catalogue(call.op, call.args)[2]
        /\ request.url.href = client.apiUrl \o <<"/">> \o Catalogue(call.op, call.args)[2]
        /\ callFetches = 1
        /\ call.op = "subscribe"
              => /\ request.init.body.k = "json"
                 /\ request.init.body.v = call.args.v
        /\ (Parsed /\ ResponseOk(fetched) /\ ~IsErrorBody(ParsedBody))
              => outcome = Resolved(ParsedBody)

\* updateNotification answered 200 with {success: true}.
C22_Witness ==
    /\ call.op = "updateNotification"
    /\ request.init.method = "PUT"
    /\ call.path = <<"notifications", "/", "n1">>
    /\ Parsed
    /\ fetched.status = 200
    /\ ParsedBody = JObj([success |-> JBool(TRUE)])
    /\ outcome = Resolved(ParsedBody)

(***************************************************************************)
(* C23.  getChecklist called with a checklist id or handle issues a GET to *)
(* checklists/{idOrHandle} and resolves to the parsed checklist.  The code *)
(* breaks it: getChecklist takes no argument and requests `checklists`.    *)
(***************************************************************************)
C23_GetChecklistById ==
    (Issued /\ call.op = "getChecklist" /\ call.args.k = "string") =>
        /\ request.init.method = "GET"
        /\ call.path = <<"checklists", "/", call.args.v>>
        /\ (Parsed /\ ResponseOk(fetched) /\ ~IsErrorBody(ParsedBody))
              => outcome = Resolved(ParsedBody)

(***************************************************************************)
(* C24.  completeChecklistStep called with {idOrHandle, stepIdOrHandle}    *)
(* issues a POST to checklists/{idOrHandle}/steps/{stepIdOrHandle}/complete*)
(* : the path holds the identifiers the caller passed.  The code breaks    *)
(* it: it reads `checklistId` and `checklistStepId`.                       *)
(***************************************************************************)
C24_CompleteStepPath ==
    (Issued /\ call.op = "completeChecklistStep" /\ "idOrHandle" \in DOMAIN call.args.v) =>
        /\ request.init.method = "POST"
        /\ call.path = <<"checklists", "/", call.args.v.idOrHandle.v, "/", "steps", "/",
                         call.args.v.stepIdOrHandle.v, "/", "complete">>

(***************************************************************************)
(* C25.  addPaymentMethod issues a POST to payment_methods and, when the   *)
(* caller supplies updateExistingPaymentMethods (false included), the JSON *)
(* payload holds that field together with returnUrl.  The code breaks it:  *)
(* only returnUrl is forwarded.                                            *)
(***************************************************************************)
C25_PaymentMethodOptions ==
    (Issued /\ call.op = "addPaymentMethod"
       /\ "updateExistingPaymentMethods" \in DOMAIN call.args.v) =>
        /\ request.init.method = "POST"
        /\ call.path = <<"payment_methods">>
        /\ request.init.body.k = "json"
        /\ "returnUrl" \in DOMAIN request.init.body.v
        /\ request.init.body.v.returnUrl = call.args.v.returnUrl
        /\ "updateExistingPaymentMethods" \in DOMAIN request.init.body.v
        /\ request.init.body.v.updateExistingPaymentMethods
              = call.args.v.updateExistingPaymentMethods

C27_ConfigurationFixed ==
    client # NoClient =>
        /\ Constructed
        /\ client.appId = given.appId
        /\ client.apiKey = given.apiKey
        /\ client.customerApiToken = given.customerApiToken
        /\ client.apiUrl = IF given.apiUrl = Undefined
                           THEN <<"https:", "/", "/", "appapi.heymantle.com", "/", "v1">>
                           ELSE given.apiUrl.v

\* After a resolved first operation, a second one answered 401 with an error body.
C27_Witness ==
    /\ nInvoked = 2
    /\ Parsed
    /\ fetched.status = 401
    /\ IsErrorBody(ParsedBody)
    /\ given # NoParams
    /\ given.apiUrl = Undefined
    /\ client.customerApiToken = JStr("tok1")
    /\ client.apiUrl = DefaultApiUrl

(***************************************************************************)
(* C28.  With several invocations in flight on one client, under every     *)
(* interleaving: the fetch arguments of each are those built from its own  *)
(* arguments and the client's configuration; each settles according to the *)
(* response the network made for it, and to nothing of another invocation; *)
(* and an invocation waiting for its fetch or its body can always take its *)
(* step, whatever the others are doing.                                    *)
(***************************************************************************)
\* What mantleRequest gives for the response the network made for one invocation.
OwnResult(f) ==
    IF f.fetched.k = "failed" THEN Rejected(f.fetched.v)
    ELSE IF f.fetched.json.k = "rejected" THEN Rejected(f.fetched.json.v)
    ELSE Resolved(f.fetched.json.v)

C28_InvocationsIsolated ==
    \A s \in Slots :
        LET f == flights[s]
        IN /\ f.pc # "idle"
                 => f.request = mantleRequestFetch(client, RequestOf(f.op, f.args))
           /\ f.pc \in {"fetch", "json"} => f.outcome = Pending
           /\ f.pc = "done" => f.outcome = Settle(f.op, f.args, OwnResult(f))
           /\ f.pc = "fetch" => (ENABLED FlightFetchResolves(s) /\ ENABLED FlightFetchRejects(s))
           /\ f.pc = "json" => ENABLED FlightJsonSettles(s)

\* Two invocations of different operations, answered differently; the one invoked
\* in slot 2 has settled with its session while slot 1 still waits for its body.
C28_Witness ==
    /\ flights[1].op = "getCustomer"
    /\ flights[1].pc = "json"
    /\ flights[1].fetched = [k |-> "response", status |-> 401,
                             json |-> Resolved(JObj([error |-> JStr("Unauthorized")]))]
    /\ flights[2].op = "createHostedSession"
    /\ flights[2].pc = "done"
    /\ flights[2].fetched.k = "response"
    /\ flights[2].fetched.status = 200
    /\ flights[2].outcome = Resolved(Session)

(***************************************************************************)
(* C29.  limitForFeature resolves to -1 when the request completes without *)
(* yielding a customer: a parsed body that is an object without `error`    *)
(* and without `customer`.  The code breaks it: it evaluates               *)
(* `"error" in customer` on undefined and rejects with a TypeError.        *)
(***************************************************************************)
C29_NoCustomerNoLimit ==
    (call.op = "limitForFeature" /\ Parsed /\ ParsedBody.k = "object"
       /\ "error" \notin DOMAIN ParsedBody.v /\ "customer" \notin DOMAIN ParsedBody.v)
        => outcome = Resolved(JNum(-1))

(***************************************************************************)
(* C30.  notify issues a POST to notification_templates/{templateId}/notify*)
(* whose JSON payload always holds a boolean `test`: the caller's value    *)
(* when given, false otherwise, also when the caller passes test as        *)
(* undefined; it resolves to the body's `notifies` when the body is an     *)
(* object without `error`, and to the body when it has an `error` key.     *)
(* The code breaks it: an explicit `test: undefined` overrides the default *)
(* and the payload has no `test`.                                          *)
(***************************************************************************)
C30_NotifyRequest ==
    (Issued /\ call.op = "notify") =>
        /\ request.init.method = "POST"
        /\ call.path = <<"notification_templates", "/", call.args.v.templateId.v, "/", "notify">>
        /\ request.init.body.k = "json"
        /\ "test" \in DOMAIN request.init.body.v
        /\ request.init.body.v.test =
              (IF "test" \in DOMAIN call.args.v /\ call.args.v.test.k = "boolean"
               THEN call.args.v.test
               ELSE JBool(FALSE))
        /\ (Parsed /\ ParsedBody.k = "object")
              => outcome = Resolved(IF IsErrorBody(ParsedBody) THEN ParsedBody
                                    ELSE IF "notifies" \in DOMAIN ParsedBody.v
                                    THEN ParsedBody.v.notifies
                                    ELSE Undefined)

====
